---------------------------- MODULE Spec2Model ----------------------------
(***************************************************************************)
(* A model of the bridge rules engine: core/deck.py (Card, Deck) and       *)
(* core/game.py (Bid, BridgeGame).  The one BridgeGame object is the       *)
(* variable game, a record with the object's fields; every method is an    *)
(* operator from a game record (and the call's arguments) to the record    *)
(* after the call and the value returned.  The variable caller is what a   *)
(* user of the Bid class holds: two Bid objects, a text, and the values    *)
(* the Bid methods returned for them; and what a user of the Deck class    *)
(* holds: the cards deal_card returned since the last reset, and the       *)
(* value of its last call.                                                 *)
(***************************************************************************)
EXTENDS Integers, Sequences, FiniteSets, TLC

VARIABLES game, caller

vars == <<game, caller>>

(***************************************************************************)
(* Bounds of the model.                                                    *)
(***************************************************************************)
\* ranks per suit of the modelled deck (13 in the source): the deck holds
\* 4 * NumRanks cards and every seat is dealt NumRanks of them
NumRanks == 1
\* the highest level of a Normal bid a caller submits (all 7 levels take
\* part in every legality question asked of a reachable state)
MaxLevel == 2
\* the longest auction explored
MaxCalls == 6
\* the number of cards played that the auction's specification follows a
\* hand for
MaxPlays == 1
\* ranks per suit of the deck of the play specification, which follows
\* hands to their end: every seat is dealt PlayRanks cards
PlayRanks == 2
\* the longest auction the play specification explores
PlayCalls == 4
\* the number of shuffle orders the deal specification draws from
NumDeals == 150

(***************************************************************************)
(* Python's None, for a seat, a bid field and a text.                      *)
(***************************************************************************)
NoSeat == -1
None == "None"

Seats == 0..3

Min(a, b) == IF a < b THEN a ELSE b

(***************************************************************************)
(* core/deck.py                                                            *)
(***************************************************************************)
ACE == 14
LowValue == ACE - NumRanks + 1
CardValues == LowValue..ACE
SuitSeq == <<"S", "H", "D", "C">>
Suits == {"S", "H", "D", "C"}

Card(suit, value) == [suit |-> suit, value |-> value]
Cards == {Card(s, v) : s \in Suits, v \in CardValues}

\* Deck.reset of a deck of the given number of ranks per suit (the top
\* ranks, up to the ace): suit by suit, each suit from the lowest value up
DeckOf(ranks) ==
  [i \in 1..(4 * ranks) |->
     Card(SuitSeq[((i - 1) \div ranks) + 1], (ACE - ranks) + 1 + ((i - 1) % ranks))]

Deck_reset == DeckOf(NumRanks)

RECURSIVE Fact(_)
Fact(n) == IF n <= 1 THEN 1 ELSE n * Fact(n - 1)

RemoveAt(s, i) == SubSeq(s, 1, i - 1) \o SubSeq(s, i + 1, Len(s))

\* Deck.shuffle: random.shuffle leaves some permutation of the cards held;
\* seed k in 0..Len(s)!-1 names the k-th permutation in lexicographic order
RECURSIVE Deck_shuffle(_, _)
Deck_shuffle(s, k) ==
  IF Len(s) = 0 THEN <<>>
  ELSE LET f == Fact(Len(s) - 1)
           i == ((k \div f) % Len(s)) + 1
       IN  <<s[i]>> \o Deck_shuffle(RemoveAt(s, i), k % f)

\* the None that deal_card returns in place of a Card
NoCard == [suit |-> None, value |-> 0]

\* a deal_card that reads the last card and leaves it in the deck
Deck_deal_card_kept(cards) ==
  IF Len(cards) = 0
    THEN [card |-> NoCard, cards |-> cards]
    ELSE [card |-> cards[Len(cards)], cards |-> cards]

\* Deck.deal_card: pop from the end; None on an empty deck
Deck_deal_card(cards) ==
  IF Len(cards) = 0
    THEN [card |-> NoCard, cards |-> cards]
    ELSE [card |-> cards[Len(cards)], cards |-> SubSeq(cards, 1, Len(cards) - 1)]

(***************************************************************************)
(* core/game.py: Bid                                                       *)
(***************************************************************************)
Denoms == {"C", "D", "H", "S", "NT"}
DenomSeq == <<"C", "D", "H", "S", "NT">>
Levels == 1..7

DenomRank(d) ==
  CASE d = "C" -> 1 [] d = "D" -> 2 [] d = "H" -> 3 [] d = "S" -> 4 [] d = "NT" -> 5

\* level 0 and denomination None stand for Python's None fields
Bid(t, l, d) == [bid_type |-> t, level |-> l, denomination |-> d]
PassBid == Bid("PASS", 0, None)
DoubleBid == Bid("DOUBLE", 0, None)
RedoubleBid == Bid("REDOUBLE", 0, None)
Normal(l, d) == Bid("NORMAL", l, d)
NoBid == Bid("NONE", 0, None)

NormalBids == {Normal(l, d) : l \in Levels, d \in Denoms}
AllBids == {PassBid, DoubleBid, RedoubleBid} \cup NormalBids

\* Bid.__eq__
Bid_eq(a, b) ==
  IF a.bid_type # b.bid_type THEN FALSE
  ELSE IF a.bid_type = "NORMAL"
    THEN a.level = b.level /\ a.denomination = b.denomination
    ELSE TRUE

\* a __lt__ that ranks Normal bids by denomination before level
Bid_lt_denomination_first(a, b) ==
  IF a.bid_type = "PASS" THEN b.bid_type # "PASS"
  ELSE IF a.bid_type = "DOUBLE" \/ a.bid_type = "REDOUBLE"
    THEN (IF b.bid_type = "REDOUBLE" THEN a.bid_type = "DOUBLE" ELSE FALSE)
  ELSE IF b.bid_type = "NORMAL"
    THEN (IF DenomRank(a.denomination) < DenomRank(b.denomination) THEN TRUE
          ELSE IF DenomRank(a.denomination) > DenomRank(b.denomination) THEN FALSE
          ELSE a.level < b.level)
  ELSE FALSE

\* a __lt__ that puts Double and Redouble below every Normal bid
Bid_lt_doubles_below_bids(a, b) ==
  IF a.bid_type = "PASS" THEN b.bid_type # "PASS"
  ELSE IF a.bid_type = "DOUBLE" \/ a.bid_type = "REDOUBLE"
    THEN (IF b.bid_type = "REDOUBLE" THEN a.bid_type = "DOUBLE"
          ELSE b.bid_type = "NORMAL")
  ELSE IF b.bid_type = "NORMAL"
    THEN (IF a.level < b.level THEN TRUE
          ELSE IF a.level > b.level THEN FALSE
          ELSE DenomRank(a.denomination) < DenomRank(b.denomination))
  ELSE FALSE

\* Bid.__lt__
Bid_lt(a, b) ==
  IF a.bid_type = "PASS" THEN b.bid_type # "PASS"
  ELSE IF a.bid_type = "DOUBLE" \/ a.bid_type = "REDOUBLE"
    THEN (IF b.bid_type = "REDOUBLE" THEN a.bid_type = "DOUBLE" ELSE FALSE)
  ELSE IF b.bid_type = "NORMAL"
    THEN (IF a.level < b.level THEN TRUE
          ELSE IF a.level > b.level THEN FALSE
          ELSE DenomRank(a.denomination) < DenomRank(b.denomination))
  ELSE FALSE

\* a __gt__ that holds of equal bids too
Bid_gt_or_equal(a, b) == Bid_lt(b, a) \/ Bid_eq(a, b)

\* Bid.__gt__
Bid_gt(a, b) == Bid_lt(b, a) /\ ~Bid_eq(a, b)

\* a rank that counts four denominations to a level
Bid_get_rank_four_to_a_level(b) ==
  IF b.bid_type = "PASS" THEN 0
  ELSE IF b.bid_type = "NORMAL" THEN (b.level * 4) + DenomRank(b.denomination)
  ELSE 0 - 1

\* Bid.get_rank
Bid_get_rank(b) ==
  IF b.bid_type = "PASS" THEN 0
  ELSE IF b.bid_type = "NORMAL" THEN (b.level * 5) + DenomRank(b.denomination)
  ELSE 0 - 1


(***************************************************************************)
(* Text.  A Python str is a sequence of characters, each character a       *)
(* one-element token; the four suit symbols U+2663, U+2666, U+2665 and     *)
(* U+2660 are the tokens "u2663", "u2666", "u2665", "u2660".               *)
(***************************************************************************)
UpperSeq == <<"A", "B", "C", "D", "E", "F", "G", "H", "I", "J", "K", "L", "M",
              "N", "O", "P", "Q", "R", "S", "T", "U", "V", "W", "X", "Y", "Z">>
LowerSeq == <<"a", "b", "c", "d", "e", "f", "g", "h", "i", "j", "k", "l", "m",
              "n", "o", "p", "q", "r", "s", "t", "u", "v", "w", "x", "y", "z">>
DigitSeq == <<"0", "1", "2", "3", "4", "5", "6", "7", "8", "9">>

\* str.lower, character by character
LowerChar(c) ==
  IF \E i \in 1..26 : UpperSeq[i] = c
    THEN LowerSeq[CHOOSE i \in 1..26 : UpperSeq[i] = c]
    ELSE c
str_lower(t) == [i \in 1..Len(t) |-> LowerChar(t[i])]

\* str.strip: leading and trailing blanks go
RECURSIVE str_lstrip(_)
str_lstrip(t) ==
  IF Len(t) > 0 /\ t[1] = " " THEN str_lstrip(Tail(t)) ELSE t
RECURSIVE str_rstrip(_)
str_rstrip(t) ==
  IF Len(t) > 0 /\ t[Len(t)] = " " THEN str_rstrip(SubSeq(t, 1, Len(t) - 1)) ELSE t
str_strip(t) == str_rstrip(str_lstrip(t))

\* int() of one character: its digit value, or -1 where int raises ValueError
int_char(c) ==
  IF \E i \in 1..10 : DigitSeq[i] = c
    THEN (CHOOSE i \in 1..10 : DigitSeq[i] = c) - 1
    ELSE 0 - 1

\* str(level) for a level of one digit
str_int(n) == DigitSeq[n + 1]

\* symbols with those of the two major suits exchanged
DenomSymbol_majors_exchanged(d) ==
  CASE d = "C" -> <<"u2663">> [] d = "D" -> <<"u2666">> [] d = "H" -> <<"u2660">>
    [] d = "S" -> <<"u2665">> [] d = "NT" -> <<"N", "T">>

\* Bid.DENOMINATIONS[d]['symbol']
DenomSymbol(d) ==
  CASE d = "C" -> <<"u2663">> [] d = "D" -> <<"u2666">> [] d = "H" -> <<"u2665">>
    [] d = "S" -> <<"u2660">> [] d = "NT" -> <<"N", "T">>

\* the denomination as the characters of its dictionary key
DenomText(d) == IF d = "NT" THEN <<"N", "T">> ELSE <<d>>

\* what a raised ValueError leaves in place of a Bid
ValueError == Bid("ValueError", 0, None)

\* Bid.__init__: the validation of a NORMAL bid
Bid_init(t, l, d) ==
  IF t = "NORMAL" /\ (l < 1 \/ l > 7 \/ d \notin Denoms) THEN ValueError
  ELSE Bid(t, l, d)

\* Bid.__str__
Bid_str(b) ==
  IF b.bid_type = "PASS" THEN <<"P", "a", "s", "s">>
  ELSE IF b.bid_type = "DOUBLE" THEN <<"D", "o", "u", "b", "l", "e">>
  ELSE IF b.bid_type = "REDOUBLE" THEN <<"R", "e", "d", "o", "u", "b", "l", "e">>
  ELSE <<str_int(b.level)>> \o DenomSymbol(b.denomination)

\* Bid.from_string
Bid_from_string(text) ==
  LET bid_str == str_strip(text)
      low == str_lower(bid_str)
  IN  IF low = <<"p", "a", "s", "s">> THEN Bid_init("PASS", 0, None)
      ELSE IF low = <<"d", "o", "u", "b", "l", "e">> THEN Bid_init("DOUBLE", 0, None)
      ELSE IF low = <<"r", "e", "d", "o", "u", "b", "l", "e">>
        THEN Bid_init("REDOUBLE", 0, None)
      ELSE IF Len(bid_str) < 2 THEN ValueError
      ELSE LET level == int_char(bid_str[1])
               rest == SubSeq(bid_str, 2, Len(bid_str))
               c == bid_str[2]
           IN  IF level < 0 THEN ValueError
               ELSE IF rest = <<"N", "T">> THEN Bid_init("NORMAL", level, "NT")
               ELSE IF c \in {"C", "D", "H", "S"} THEN Bid_init("NORMAL", level, c)
               ELSE IF c = "u2663" THEN Bid_init("NORMAL", level, "C")
               ELSE IF c = "u2666" THEN Bid_init("NORMAL", level, "D")
               ELSE IF c = "u2665" THEN Bid_init("NORMAL", level, "H")
               ELSE IF c = "u2660" THEN Bid_init("NORMAL", level, "S")
               ELSE ValueError

(***************************************************************************)
(* core/game.py: BridgeGame                                                *)
(***************************************************************************)
\* a trick-tally that _score_hand has not written yet
NoScores == [NS |-> 0 - 1, EW |-> 0 - 1]

\* BridgeGame.__init__ (with initialize_players: four empty hands);
\* players[i] is players[i]["hand"], contract None is the empty text and
\* last_complete_trick None the empty list
BridgeGame_init ==
  [deck |-> Deck_reset,
   players |-> [i \in Seats |-> <<>>],
   current_player |-> 0,
   trick |-> <<>>,
   contract |-> <<>>,
   current_state |-> "bidding",
   game_history |-> <<>>,
   last_trick_winner |-> NoSeat,
   last_complete_trick |-> <<>>,
   bidding_history |-> <<>>,
   current_bidder |-> 0,
   last_bid |-> NoBid,
   double_status |-> "none",
   declarer |-> NoSeat,
   dummy |-> NoSeat,
   scores |-> NoScores]

\* the dealing loop of deal_cards, each seat drawing ranks cards (13 in
\* the source): iteration j (0-based) is for seat j \div ranks, and draws
\* nothing once the deck is empty
RECURSIVE DealLoop(_, _, _, _)
DealLoop(cards, hands, j, ranks) ==
  IF j >= 4 * ranks THEN [cards |-> cards, hands |-> hands]
  ELSE LET d == Deck_deal_card(cards)
       IN  IF Len(cards) = 0 \/ d.card = NoCard
             THEN DealLoop(cards, hands, j + 1, ranks)
             ELSE DealLoop(d.cards,
                           [hands EXCEPT ![j \div ranks] = Append(@, d.card)],
                           j + 1, ranks)

\* BridgeGame.deal_cards of a deck of ranks ranks per suit, its shuffle
\* drawing permutation seed
deal_cards(g, ranks, seed) ==
  LET dealt == DealLoop(Deck_shuffle(DeckOf(ranks), seed),
                        [i \in Seats |-> <<>>], 0, ranks)
  IN  [g EXCEPT !.deck = dealt.cards, !.players = dealt.hands]

\* BridgeGame.new_game
new_game(g, ranks, seed0, seed) ==
  LET g1 == [g EXCEPT !.deck = Deck_shuffle(DeckOf(ranks), seed0)]
      g2 == deal_cards(g1, ranks, seed)
  IN  [g2 EXCEPT !.current_player = 0,
                 !.trick = <<>>,
                 !.contract = <<>>,
                 !.current_state = "bidding",
                 !.game_history = <<>>,
                 !.last_trick_winner = NoSeat,
                 !.bidding_history = <<>>,
                 !.current_bidder = 0,
                 !.last_bid = NoBid,
                 !.double_status = "none"]

\* BridgeGame.start_bidding
start_bidding(g) ==
  [g EXCEPT !.current_state = "bidding",
            !.current_bidder = 0,
            !.current_player = 0,
            !.bidding_history = <<>>,
            !.last_bid = NoBid,
            !.double_status = "none"]

\* the seat of the most recent NORMAL entry of the history, scanned from
\* the end as is_valid_bid, get_valid_bids and _finalize_contract do
RECURSIVE LastNormalIndex(_, _)
LastNormalIndex(h, i) ==
  IF i = 0 THEN 0
  ELSE IF h[i].bid.bid_type = "NORMAL" THEN i
  ELSE LastNormalIndex(h, i - 1)

\* a scan that forgets reversed(): the seat of the first NORMAL entry
last_bidder_unreversed(g) ==
  LET h == g.bidding_history
      N == {i \in 1..Len(h) : h[i].bid.bid_type = "NORMAL"}
  IN  IF N = {} THEN NoSeat
      ELSE h[CHOOSE i \in N : \A j \in N : i <= j].player

last_bidder(g) ==
  LET i == LastNormalIndex(g.bidding_history, Len(g.bidding_history))
  IN  IF i = 0 THEN NoSeat ELSE g.bidding_history[i].player

\* is_valid_bid, the DOUBLE branch
is_valid_double(g) ==
  IF g.last_bid = NoBid THEN FALSE
  ELSE IF last_bidder(g) = NoSeat THEN FALSE
  ELSE IF g.current_bidder % 2 = last_bidder(g) % 2 THEN FALSE
  ELSE g.double_status = "none"

\* a REDOUBLE branch that takes any double status but none
is_valid_redouble_any_double(g) ==
  IF g.double_status = "none" THEN FALSE
  ELSE IF last_bidder(g) = NoSeat THEN FALSE
  ELSE g.current_bidder % 2 = last_bidder(g) % 2

\* is_valid_bid, the REDOUBLE branch
is_valid_redouble(g) ==
  IF g.double_status # "doubled" THEN FALSE
  ELSE IF last_bidder(g) = NoSeat THEN FALSE
  ELSE g.current_bidder % 2 = last_bidder(g) % 2

\* BridgeGame.is_valid_bid
is_valid_bid(g, bid) ==
  IF bid.bid_type = "PASS" THEN TRUE
  ELSE IF bid.bid_type = "DOUBLE" THEN is_valid_double(g)
  ELSE IF bid.bid_type = "REDOUBLE" THEN is_valid_redouble(g)
  ELSE IF g.last_bid # NoBid THEN Bid_gt(bid, g.last_bid)
  ELSE TRUE

\* BridgeGame.get_valid_bids: the list it returns, in its order
get_valid_bids(g) ==
  LET dbl == IF /\ g.last_bid # NoBid
                /\ g.double_status = "none"
                /\ last_bidder(g) # NoSeat
                /\ g.current_bidder % 2 # last_bidder(g) % 2
               THEN <<DoubleBid>> ELSE <<>>
      rdbl == IF /\ g.double_status = "doubled"
                 /\ last_bidder(g) # NoSeat
                 /\ g.current_bidder % 2 = last_bidder(g) % 2
                THEN <<RedoubleBid>> ELSE <<>>
      all == [i \in 1..35 |-> Normal(((i - 1) \div 5) + 1, DenomSeq[((i - 1) % 5) + 1])]
      ok(b) == g.last_bid = NoBid \/ Bid_gt(b, g.last_bid)
  IN  <<PassBid>> \o dbl \o rdbl \o SelectSeq(all, ok)

\* a get_valid_bids that moves the turn on as it answers
get_valid_bids_call_advancing(g) ==
  [game |-> [g EXCEPT !.current_bidder = (@ + 1) % 4], ret |-> get_valid_bids(g)]

\* the calls of the two queries: the game after the call (they assign to
\* no field) and the value returned
get_valid_bids_call(g) == [game |-> g, ret |-> get_valid_bids(g)]
is_valid_bid_call(g, bid) == [game |-> g, ret |-> is_valid_bid(g, bid)]

AllPass(h) == \A i \in 1..Len(h) : h[i].bid.bid_type = "PASS"

\* a completion check that is content with two closing passes
is_bidding_complete_two_passes(g) ==
  LET h == g.bidding_history
      n == Len(h)
  IN  IF n < 4 THEN FALSE
      ELSE IF n = 4 /\ AllPass(h) THEN TRUE
      ELSE AllPass(SubSeq(h, n - 1, n)) /\ \E i \in 1..n : h[i].bid.bid_type # "PASS"

\* BridgeGame._is_bidding_complete
is_bidding_complete(g) ==
  LET h == g.bidding_history
      n == Len(h)
  IN  IF n < 4 THEN FALSE
      ELSE IF n = 4 /\ AllPass(h) THEN TRUE
      ELSE LET last_three_passes == AllPass(SubSeq(h, n - 2, n))
               has_contract_bid == \E i \in 1..n : h[i].bid.bid_type # "PASS"
           IN  last_three_passes /\ has_contract_bid

\* a scan for the strain that forgets the partnership
strain_bidders_either_side(h, partnership, strain) ==
  LET named(e) == e.bid.bid_type = "NORMAL" /\ e.bid.denomination = strain
  IN  SelectSeq(h, named)

\* the seats of the declaring side that named the strain, in history order
strain_bidders(h, partnership, strain) ==
  LET named(e) == /\ e.player % 2 = partnership
                  /\ e.bid.bid_type = "NORMAL"
                  /\ e.bid.denomination = strain
  IN  SelectSeq(h, named)

\* defaults that clear the contract only
no_contract_keeping_declarer(g) == [g EXCEPT !.contract = <<>>]

\* _finalize_contract, its defaults: no contract (all passed)
no_contract(g) == [g EXCEPT !.contract = <<>>, !.declarer = NoSeat, !.dummy = NoSeat]

\* a suffix that tells a doubled from an undoubled contract only
contract_suffix_doubled_only(double_status) ==
  IF double_status = "doubled" THEN <<"X">> ELSE <<>>

\* _finalize_contract, the suffix of the contract text
contract_suffix(double_status) ==
  IF double_status = "doubled" THEN <<"X">>
  ELSE IF double_status = "redoubled" THEN <<"X", "X">>
  ELSE <<>>

\* BridgeGame._finalize_contract
finalize_contract(g) ==
  LET h == g.bidding_history
      g0 == no_contract(g)
      i == LastNormalIndex(h, Len(h))
  IN  IF AllPass(h) THEN g0
      ELSE IF i = 0 THEN g0
      ELSE LET last_normal_bid == h[i].bid
               last_normal_bidder == h[i].player
               strain == last_normal_bid.denomination
               level == last_normal_bid.level
               contract_str == <<str_int(level)>> \o DenomText(strain)
                                 \o contract_suffix(g.double_status)
               bidders == strain_bidders(h, last_normal_bidder % 2, strain)
               declarer == IF Len(bidders) > 0 THEN bidders[1].player
                           ELSE last_normal_bidder
               dummy == (declarer + 2) % 4
           IN  [g0 EXCEPT !.contract = contract_str,
                          !.declarer = declarer,
                          !.dummy = dummy,
                          !.current_player = (declarer + 1) % 4]

\* what place_bid is handed: a Bid object or a str
BidArg(b) == [is_str |-> FALSE, bid |-> b, text |-> <<>>]
StrArg(t) == [is_str |-> TRUE, bid |-> NoBid, text |-> t]

\* a rejection that still passes the turn on
bid_rejected_turn_passes(g) ==
  [game |-> [g EXCEPT !.current_bidder = (@ + 1) % 4], ret |-> FALSE]

\* place_bid, its three "return False": the game as it was
bid_rejected(g) == [game |-> g, ret |-> FALSE]

\* an update in which a Normal bid leaves the double status as it is
update_double_status_kept(g, bid) ==
  IF bid.bid_type = "NORMAL" THEN [g EXCEPT !.last_bid = bid]
  ELSE IF bid.bid_type = "DOUBLE" THEN [g EXCEPT !.double_status = "doubled"]
  ELSE IF bid.bid_type = "REDOUBLE" THEN [g EXCEPT !.double_status = "redoubled"]
  ELSE g

\* an update that caches every call but a pass as last_bid
update_last_bid_non_pass(g, bid) ==
  IF bid.bid_type = "NORMAL" THEN [g EXCEPT !.last_bid = bid, !.double_status = "none"]
  ELSE IF bid.bid_type = "DOUBLE"
    THEN [g EXCEPT !.last_bid = bid, !.double_status = "doubled"]
  ELSE IF bid.bid_type = "REDOUBLE"
    THEN [g EXCEPT !.last_bid = bid, !.double_status = "redoubled"]
  ELSE g

\* place_bid, the update of last_bid and double_status by an accepted call
update_double_status(g, bid) ==
  IF bid.bid_type = "NORMAL" THEN [g EXCEPT !.last_bid = bid, !.double_status = "none"]
  ELSE IF bid.bid_type = "DOUBLE" THEN [g EXCEPT !.double_status = "doubled"]
  ELSE IF bid.bid_type = "REDOUBLE" THEN [g EXCEPT !.double_status = "redoubled"]
  ELSE g

\* a first test that looks at the seat only
wrong_player_only(g, player_idx) == player_idx # g.current_bidder

\* place_bid, its first test: wrong state or player
wrong_state_or_player(g, player_idx) ==
  g.current_state # "bidding" \/ player_idx # g.current_bidder

\* BridgeGame.place_bid: the game after the call and the value returned
place_bid(g, player_idx, arg) ==
  IF wrong_state_or_player(g, player_idx)
    THEN bid_rejected(g)
  ELSE LET bid == IF arg.is_str THEN Bid_from_string(arg.text) ELSE arg.bid
       IN  IF bid = ValueError THEN bid_rejected(g)
           ELSE IF ~is_valid_bid(g, bid) THEN bid_rejected(g)
           ELSE LET g1 == [g EXCEPT !.bidding_history =
                                       Append(@, [player |-> player_idx, bid |-> bid])]
                    g2 == update_double_status(g1, bid)
                    g3 == IF is_bidding_complete(g2)
                            THEN [finalize_contract(g2) EXCEPT !.current_state = "playing"]
                            ELSE g2
                    next == (g3.current_bidder + 1) % 4
                IN  [game |-> [g3 EXCEPT !.current_bidder = next,
                                         !.current_player = next],
                     ret |-> TRUE]

\* list membership and list.remove (the first occurrence goes)
InSeq(x, s) == \E i \in 1..Len(s) : s[i] = x
\* a remove that leaves the list as it was
list_remove_nothing(s, x) == s

list_remove(s, x) ==
  LET i == CHOOSE k \in 1..Len(s) : s[k] = x /\ \A j \in 1..(k - 1) : s[j] # x
  IN  RemoveAt(s, i)

\* a check that lets every card through
is_valid_play_any_card(g, player_idx, card) == TRUE

\* BridgeGame._is_valid_play
is_valid_play(g, player_idx, card) ==
  IF Len(g.trick) = 0 THEN TRUE
  ELSE LET led_suit == g.trick[1].card.suit
           player_hand == g.players[player_idx]
           has_led_suit == \E i \in 1..Len(player_hand) : player_hand[i].suit = led_suit
       IN  IF has_led_suit THEN card.suit = led_suit ELSE TRUE

\* a trump suit read off the end of the contract text
trump_suit_last_character(contract) ==
  IF Len(contract) = 0 THEN None
  ELSE IF contract[Len(contract)] \in {"S", "H", "D", "C"} THEN contract[Len(contract)]
  ELSE None

\* the trump suit _determine_trick_winner reads off the contract text
trump_suit(contract) ==
  IF Len(contract) = 0 THEN None
  ELSE IF Len(contract) >= 2 /\ contract[2] \in {"S", "H", "D", "C"} THEN contract[2]
  ELSE IF /\ Len(contract) >= 3
          /\ contract[2] \in {"S", "H", "D", "C"}
          /\ contract[3] = "X"
    THEN contract[2]
  ELSE None

\* the loop of the no-trump branch: the first highest card of the led suit
RECURSIVE HighestOfSuit(_, _, _, _, _)
HighestOfSuit(trick, suit, i, highest_value, winner) ==
  IF i > Len(trick) THEN winner
  ELSE IF trick[i].card.suit = suit
          /\ (highest_value = 0 - 1 \/ trick[i].card.value > highest_value)
    THEN HighestOfSuit(trick, suit, i + 1, trick[i].card.value, trick[i].player)
  ELSE HighestOfSuit(trick, suit, i + 1, highest_value, winner)

\* the loop of the trump branch: a trump counts as a trump only, any other
\* card of the led suit as a led-suit card
RECURSIVE TrumpLoop(_, _, _, _, _)
TrumpLoop(trick, trump, led_suit, i, acc) ==
  IF i > Len(trick) THEN acc
  ELSE LET card == trick[i].card
           player == trick[i].player
       IN  IF card.suit = trump
             THEN IF card.value > acc.highest_trump_value
                    THEN TrumpLoop(trick, trump, led_suit, i + 1,
                                   [acc EXCEPT !.highest_trump_value = card.value,
                                               !.trump_winner = player])
                    ELSE TrumpLoop(trick, trump, led_suit, i + 1, acc)
           ELSE IF card.suit = led_suit /\ card.value > acc.highest_led_value
             THEN TrumpLoop(trick, trump, led_suit, i + 1,
                            [acc EXCEPT !.highest_led_value = card.value,
                                        !.led_suit_winner = player])
           ELSE TrumpLoop(trick, trump, led_suit, i + 1, acc)

\* a resolution that gives the trick to the seat that played last
determine_trick_winner_last_to_play(trick, contract) ==
  IF Len(trick) # 4 THEN NoSeat ELSE trick[4].player

\* a resolution that knows no trumps: the highest card of the led suit
determine_trick_winner_led_suit_only(trick, contract) ==
  IF Len(trick) # 4 THEN NoSeat
  ELSE HighestOfSuit(trick, trick[1].card.suit, 1, 0 - 1, NoSeat)

\* BridgeGame._determine_trick_winner, of a given trick under a given contract
determine_trick_winner(trick, contract) ==
  IF Len(trick) # 4 THEN NoSeat
  ELSE LET trump == trump_suit(contract)
           led_suit == trick[1].card.suit
       IN  IF trump = None
             THEN HighestOfSuit(trick, led_suit, 1, 0 - 1, NoSeat)
             ELSE LET r == TrumpLoop(trick, trump, led_suit, 1,
                                     [highest_trump_value |-> 0 - 1,
                                      highest_led_value |-> 0 - 1,
                                      trump_winner |-> NoSeat,
                                      led_suit_winner |-> NoSeat])
                  IN  IF r.trump_winner # NoSeat THEN r.trump_winner
                      ELSE r.led_suit_winner

\* play.get('winner', False) of a game_history entry: play_card writes the
\* keys player, card and trick only
play_get_winner(play) == FALSE

\* BridgeGame._score_hand: the tally it stores in scores
RECURSIVE ScoreLoop(_, _, _)
ScoreLoop(history, i, acc) ==
  IF i > Len(history) THEN acc
  ELSE LET trick == SubSeq(history, i, Min(i + 3, Len(history)))
           flagged == {k \in 1..Len(trick) : play_get_winner(trick[k])}
           winner == IF flagged = {} THEN NoSeat
                     ELSE trick[CHOOSE k \in flagged : \A j \in flagged : k <= j].player
       IN  IF Len(trick) < 4 \/ winner = NoSeat THEN ScoreLoop(history, i + 4, acc)
           ELSE IF winner \in {0, 2}
             THEN ScoreLoop(history, i + 4, [acc EXCEPT !.NS = @ + 1])
           ELSE ScoreLoop(history, i + 4, [acc EXCEPT !.EW = @ + 1])

score_hand(g) == [g EXCEPT !.scores = ScoreLoop(g.game_history, 1, [NS |-> 0, EW |-> 0])]

\* a completion test that is content with one empty hand
hand_complete_one_empty(g) == \E i \in Seats : Len(g.players[i]) = 0

\* play_card, the test for the end of the hand: no seat holds a card
hand_complete(g) == \A i \in Seats : Len(g.players[i]) = 0

\* a history entry tagged with the number of plays before it
history_entry_play_index(g, player_idx, card) ==
  [player |-> player_idx, card |-> card, trick |-> Len(g.game_history)]

\* play_card, the entry it appends to game_history
history_entry(g, player_idx, card) ==
  [player |-> player_idx, card |-> card, trick |-> Len(g.game_history) \div 4]

\* BridgeGame.play_card: the game after the call and the value returned
play_card(g, player_idx, card) ==
  IF g.current_state # "playing" THEN [game |-> g, ret |-> FALSE]
  ELSE IF /\ Len(g.trick) = 0
          /\ g.last_trick_winner # NoSeat
          /\ player_idx # g.last_trick_winner
    THEN [game |-> g, ret |-> FALSE]
  ELSE IF Len(g.trick) # 0 /\ player_idx # g.current_player
    THEN [game |-> g, ret |-> FALSE]
  ELSE IF ~InSeq(card, g.players[player_idx]) THEN [game |-> g, ret |-> FALSE]
  ELSE IF ~is_valid_play(g, player_idx, card) THEN [game |-> g, ret |-> FALSE]
  ELSE LET g1 == [g EXCEPT !.players[player_idx] = list_remove(@, card),
                           !.trick = Append(@, [player |-> player_idx, card |-> card]),
                           !.game_history =
                              Append(@, history_entry(g, player_idx, card))]
       IN  IF Len(g1.trick) = 4
             THEN LET winner == determine_trick_winner(g1.trick, g1.contract)
                      g2 == [g1 EXCEPT !.current_player = winner,
                                       !.last_trick_winner = winner,
                                       !.last_complete_trick = g1.trick,
                                       !.trick = <<>>]
                  IN  IF hand_complete(g2)
                        THEN [game |-> [score_hand(g2) EXCEPT !.current_state = "game_over"],
                              ret |-> TRUE]
                        ELSE [game |-> g2, ret |-> TRUE]
             ELSE [game |-> [g1 EXCEPT !.current_player = (g.current_player + 1) % 4],
                   ret |-> TRUE]

(***************************************************************************)
(* The callers' inputs.                                                    *)
(***************************************************************************)
\* the permutation seeds a shuffle draws from
ShuffleSeeds == {0, 9}

\* the texts a caller submits besides Bid objects
BidTexts ==
  {<<"P", "a", "s", "s">>, <<"1", "N", "T">>, <<"2", "h">>, <<"8", "C">>}

\* the calls a caller submits
SubmittedBids ==
  {PassBid, DoubleBid, RedoubleBid}
    \cup {Normal(l, d) : l \in 1..MaxLevel, d \in {"H", "NT"}}

BidArgs == {BidArg(b) : b \in SubmittedBids} \cup {StrArg(t) : t \in BidTexts}

(***************************************************************************)
(* The state machine: a caller drives the one game object.                 *)
(***************************************************************************)
\* a caller that holds no Bid object and no card
NoCaller ==
  [a |-> NoBid, b |-> NoBid, text |-> <<>>, parsed |-> NoBid,
   compared |-> FALSE, lt |-> FALSE, gt |-> FALSE,
   dealt |-> <<>>, card |-> NoCard]

Init == game = BridgeGame_init /\ caller = NoCaller

NewGame ==
  /\ \E seed0 \in ShuffleSeeds, seed \in ShuffleSeeds :
       game' = new_game(game, NumRanks, seed0, seed)
  /\ UNCHANGED caller

PlaceBid ==
  /\ Len(game.bidding_history) < MaxCalls
  /\ \E p \in Seats, arg \in BidArgs :
       game' = place_bid(game, p, arg).game
  /\ UNCHANGED caller

PlayCard ==
  /\ Len(game.game_history) < MaxPlays
  /\ \E p \in Seats, c \in Cards :
       game' = play_card(game, p, c).game
  /\ UNCHANGED caller

Next == NewGame \/ PlaceBid \/ PlayCard

Spec == Init /\ [][Next]_vars

(***************************************************************************)
(* The play specification: a hand dealt from a deck of PlayRanks ranks     *)
(* per suit, a short auction, and the play of the hand to its end.         *)
(***************************************************************************)
\* the permutation seeds of the play specification's shuffles: deals in
\* which seats hold two suits and are void in others
PlaySeeds == {38851, 34535, 12345}

PlayCards == {Card(s, v) : s \in Suits, v \in ((ACE - PlayRanks) + 1)..ACE}

\* the calls submitted in the play specification
PlayBids == {PassBid, DoubleBid, Normal(1, "H"), Normal(1, "S"), Normal(1, "NT")}

InitPlay ==
  /\ \E seed \in PlaySeeds : game = new_game(BridgeGame_init, PlayRanks, seed, seed)
  /\ caller = NoCaller

PlayBid ==
  /\ Len(game.bidding_history) < PlayCalls
  /\ \E p \in Seats, b \in PlayBids :
       game' = place_bid(game, p, BidArg(b)).game
  /\ UNCHANGED caller

PlayOut ==
  /\ \E p \in Seats, c \in PlayCards :
       game' = play_card(game, p, c).game
  /\ UNCHANGED caller

NextPlay == PlayBid \/ PlayOut

SpecPlay == InitPlay /\ [][NextPlay]_vars

(***************************************************************************)
(* The deal specification: a game object of a deck of PlayRanks ranks per  *)
(* suit that is dealt again and again.                                     *)
(***************************************************************************)
\* the permutation seeds of the deal specification's shuffles, spread over
\* the orders of the deck
DealSeeds == {k * 263 : k \in 0..(NumDeals - 1)}

InitDeal ==
  /\ game = [BridgeGame_init EXCEPT !.deck = DeckOf(PlayRanks)]
  /\ caller = NoCaller

DealCards ==
  /\ \E seed \in DealSeeds : game' = deal_cards(game, PlayRanks, seed)
  /\ UNCHANGED caller

DealNewGame ==
  /\ \E seed0 \in PlaySeeds, seed \in DealSeeds :
       game' = new_game(game, PlayRanks, seed0, seed)
  /\ UNCHANGED caller

NextDeal == DealCards \/ DealNewGame

SpecDeal == InitDeal /\ [][NextDeal]_vars

(***************************************************************************)
(* The deck specification: the Deck object of the game, reset, shuffled    *)
(* and dealt from card by card.                                            *)
(***************************************************************************)
\* the permutation seeds of the deck specification's shuffles
DeckSeeds == {1, 9, 14}

InitDeck ==
  /\ game = BridgeGame_init
  /\ caller = NoCaller

DeckReset ==
  /\ game' = [game EXCEPT !.deck = Deck_reset]
  /\ caller' = [caller EXCEPT !.dealt = <<>>]

DeckShuffle ==
  /\ \E seed \in DeckSeeds :
       game' = [game EXCEPT !.deck = Deck_shuffle(@, seed)]
  /\ UNCHANGED caller

DeckDealCard ==
  LET d == Deck_deal_card(game.deck)
  IN  /\ game' = [game EXCEPT !.deck = d.cards]
      /\ caller' = [caller EXCEPT !.card = d.card,
                                  !.dealt = IF d.card = NoCard THEN @
                                            ELSE Append(@, d.card)]

NextDeck == DeckReset \/ DeckShuffle \/ DeckDealCard

SpecDeck == InitDeck /\ [][NextDeck]_vars

(***************************************************************************)
(* The auction specification: one hand's auction, its callers asking the   *)
(* two queries between calls.                                              *)
(***************************************************************************)
InitAuction ==
  /\ \E seed \in ShuffleSeeds : game = new_game(BridgeGame_init, NumRanks, seed, seed)
  /\ caller = NoCaller

AuctionBid ==
  /\ Len(game.bidding_history) < MaxCalls
  /\ \E p \in Seats, b \in SubmittedBids :
       game' = place_bid(game, p, BidArg(b)).game
  /\ UNCHANGED caller

GetValidBids ==
  /\ game' = get_valid_bids_call(game).game
  /\ UNCHANGED caller

IsValidBid ==
  /\ \E b \in AllBids : game' = is_valid_bid_call(game, b).game
  /\ UNCHANGED caller

NextAuction == AuctionBid \/ GetValidBids \/ IsValidBid

SpecAuction == InitAuction /\ [][NextAuction]_vars

(***************************************************************************)
(* The Bid specification: a caller holds two Bid objects, formats or       *)
(* spells the first as a text, may type a character after it, parses the   *)
(* text, and compares the two.                                             *)
(***************************************************************************)
\* str.upper, character by character
UpperChar(c) ==
  IF \E i \in 1..26 : LowerSeq[i] = c
    THEN UpperSeq[CHOOSE i \in 1..26 : LowerSeq[i] = c]
    ELSE c
str_upper(t) == [i \in 1..Len(t) |-> UpperChar(t[i])]

\* the canonical text of a bid: Pass, Double, Redouble, or level and
\* strain letters
Canonical(b) ==
  IF b.bid_type = "NORMAL" THEN <<str_int(b.level)>> \o DenomText(b.denomination)
  ELSE Bid_str(b)

\* the canonical text in upper, lower and mixed case
Spellings(b) ==
  {Canonical(b), str_lower(Canonical(b)), str_upper(Canonical(b))}
    \cup (IF b.bid_type = "NORMAL" /\ b.denomination = "NT"
            THEN {<<str_int(b.level), "N", "t">>, <<str_int(b.level), "n", "T">>}
            ELSE {})

InitBid ==
  /\ game = BridgeGame_init
  /\ \E x \in AllBids, y \in AllBids :
       caller = [NoCaller EXCEPT !.a = x, !.b = y]

\* text = str(a)
Format ==
  /\ caller' = [caller EXCEPT !.text = Bid_str(caller.a), !.parsed = NoBid]
  /\ UNCHANGED game

\* text = a spelling of a
Spell ==
  /\ \E t \in Spellings(caller.a) :
       caller' = [caller EXCEPT !.text = t, !.parsed = NoBid]
  /\ UNCHANGED game

\* the characters a caller types after a text
ExtraChars == {"X", "S"}

\* text = a text of a followed by one more character
Extend ==
  /\ caller.text \in Spellings(caller.a) \cup {Bid_str(caller.a)}
  /\ \E c \in ExtraChars :
       caller' = [caller EXCEPT !.text = Append(@, c), !.parsed = NoBid]
  /\ UNCHANGED game

\* parsed = Bid.from_string(text)
Parse ==
  /\ Len(caller.text) > 0
  /\ caller' = [caller EXCEPT !.parsed = Bid_from_string(caller.text)]
  /\ UNCHANGED game

\* a < b and a > b
Compare ==
  /\ caller' = [caller EXCEPT !.compared = TRUE,
                              !.lt = Bid_lt(caller.a, caller.b),
                              !.gt = Bid_gt(caller.a, caller.b)]
  /\ UNCHANGED game

NextBid == Format \/ Spell \/ Extend \/ Parse \/ Compare

SpecBid == InitBid /\ [][NextBid]_vars

(***************************************************************************)
(* The auction, read off the history alone.                                *)
(***************************************************************************)
History == game.bidding_history
NormalCalls == {i \in 1..Len(History) : History[i].bid.bid_type = "NORMAL"}
NonPassCalls == {i \in 1..Len(History) : History[i].bid.bid_type # "PASS"}
Last(S) == CHOOSE i \in S : \A j \in S : j <= i
First(S) == CHOOSE i \in S : \A j \in S : i <= j
LastNormal == History[Last(NormalCalls)]
OnlyPasses(from, to) == \A i \in from..to : History[i].bid.bid_type = "PASS"
Open == game.current_state = "bidding"

\* level first, then strain rank C < D < H < S < NT
StrainRank == [C |-> 1, D |-> 2, H |-> 3, S |-> 4, NT |-> 5]
Higher(b, than) ==
  \/ b.level > than.level
  \/ b.level = than.level /\ StrainRank[b.denomination] > StrainRank[than.denomination]

\* texts asked of every reachable state: canonical forms in other cases
\* and with blanks, levels out of range, unknown strains, trailing
\* characters, short and empty texts
ProbeTexts ==
  BidTexts \cup
  {<<" ", "P", "A", "S", "S", " ">>, <<"D", "o", "u", "b", "l", "e">>,
   <<"r", "e", "d", "o", "u", "b", "l", "e">>, <<" ", "2", "N", "T">>,
   <<"3", "u2660">>, <<"0", "H">>, <<"1", "X">>, <<"1", "H", "X">>,
   <<"H", "1">>, <<"1">>, <<>>}

\* every argument a caller can hand to place_bid
EveryBidArg == {BidArg(b) : b \in AllBids} \cup {StrArg(t) : t \in ProbeTexts}

(***************************************************************************)
(* C1.  Whenever the auction is complete and a Normal bid was made, the    *)
(* contract names the level and strain of the last Normal bid of the       *)
(* history, the declarer is the earliest caller of that bidder's           *)
(* partnership who made a Normal bid in that strain, and the dummy is the  *)
(* declarer's partner (declarer + 2) mod 4.                                *)
(***************************************************************************)
C1_ContractDeclarerDummy ==
  (~Open /\ NormalCalls # {}) =>
    LET last == LastNormal
        naming == {i \in NormalCalls :
                     /\ History[i].player % 2 = last.player % 2
                     /\ History[i].bid.denomination = last.bid.denomination}
        first == History[First(naming)].player
        strain == DenomText(last.bid.denomination)
    IN  /\ Len(game.contract) >= 1 + Len(strain)
        /\ game.contract[1] = DigitSeq[last.bid.level + 1]
        /\ SubSeq(game.contract, 2, 1 + Len(strain)) = strain
        /\ game.declarer = first
        /\ game.dummy = (first + 2) % 4

\* a resolved auction in which the other side named the contract strain
\* before the declaring side did
C1_Witness ==
  /\ ~Open
  /\ NormalCalls # {}
  /\ \E i \in NormalCalls :
       /\ History[i].player % 2 # LastNormal.player % 2
       /\ History[i].bid.denomination = LastNormal.bid.denomination
  /\ game.declarer = LastNormal.player

(***************************************************************************)
(* C2.  Right after the call that completes an auction with a contract     *)
(* (state playing, no card played yet) the seat on turn is the opening     *)
(* leader, (declarer + 1) mod 4.                                           *)
(***************************************************************************)
C2_OpeningLeaderOnTurn ==
  (/\ game.current_state = "playing"
   /\ game.contract # <<>>
   /\ Len(game.game_history) = 0)
    => game.current_player = (game.declarer + 1) % 4

(***************************************************************************)
(* C3.  In a play state with an empty trick, play_card accepts a card      *)
(* only from the designated leader: the opening leader (declarer + 1)      *)
(* mod 4 for the first trick, the last trick's winner afterwards.          *)
(***************************************************************************)
DesignatedLeader ==
  IF Len(game.game_history) = 0 THEN (game.declarer + 1) % 4
  ELSE game.last_trick_winner

C3_OnlyLeaderLeads ==
  (/\ game.current_state = "playing"
   /\ game.contract # <<>>
   /\ Len(game.trick) = 0)
    => \A p \in Seats, c \in Cards :
         play_card(game, p, c).ret => p = DesignatedLeader

(***************************************************************************)
(* C4.  The auction is complete (the state has left bidding) exactly when  *)
(* (a) the history is four calls, all Pass, or (b) the history has at      *)
(* least four calls, its last three are Pass and some call is not Pass.    *)
(***************************************************************************)
C4_CompleteIff ==
  ~Open <=>
    \/ Len(History) = 4 /\ OnlyPasses(1, 4)
    \/ /\ Len(History) >= 4
       /\ OnlyPasses(Len(History) - 2, Len(History))
       /\ NonPassCalls # {}

\* an auction completed by three passes after a call that is not a pass
C4_Witness ==
  /\ ~Open
  /\ NonPassCalls # {}
  /\ Len(History) > 4

(***************************************************************************)
(* C5.  From the opening position of a hand, Pass by seats 0, 1, 2 and 3   *)
(* in turn is accepted four times and completes the auction with no        *)
(* contract, no declarer and no dummy, whatever the hand before left.      *)
(***************************************************************************)
FourPasses(g) ==
  LET r1 == place_bid(g, 0, BidArg(PassBid))
      r2 == place_bid(r1.game, 1, BidArg(PassBid))
      r3 == place_bid(r2.game, 2, BidArg(PassBid))
      r4 == place_bid(r3.game, 3, BidArg(PassBid))
  IN  [game |-> r4.game, ret |-> r1.ret /\ r2.ret /\ r3.ret /\ r4.ret]

C5_AllPassNoContract ==
  /\ (Open /\ Len(History) = 0) =>
       LET r == FourPasses(game)
       IN  /\ r.ret
           /\ r.game.current_state # "bidding"
           /\ r.game.contract = <<>>
           /\ r.game.declarer = NoSeat
           /\ r.game.dummy = NoSeat
  /\ (~Open /\ Len(History) = 4 /\ OnlyPasses(1, 4)) =>
       /\ game.contract = <<>>
       /\ game.declarer = NoSeat
       /\ game.dummy = NoSeat

\* the opening position of a hand that follows a hand with a contract
C5_Witness ==
  /\ Open
  /\ Len(History) = 0
  /\ game.declarer # NoSeat
  /\ Len(game.players[0]) = NumRanks

(***************************************************************************)
(* C6.  After an auction of four passes the hand has no play phase: every  *)
(* play_card is rejected and no trick is started.                          *)
(***************************************************************************)
C6_NoPlayAfterAllPass ==
  (~Open /\ Len(History) = 4 /\ OnlyPasses(1, 4)) =>
    /\ \A p \in Seats, c \in Cards : ~play_card(game, p, c).ret
    /\ Len(game.trick) = 0
    /\ Len(game.game_history) = 0

(***************************************************************************)
(* C7.  A place_bid that is rejected (the state is not bidding, the seat   *)
(* is not the current bidder, the text does not parse, or the bid is not   *)
(* legal) returns False and leaves the whole game as it was; every other   *)
(* call is accepted.                                                       *)
(***************************************************************************)
ParsedArg(arg) == IF arg.is_str THEN Bid_from_string(arg.text) ELSE arg.bid

MustReject(p, arg) ==
  \/ ~Open
  \/ p # game.current_bidder
  \/ ParsedArg(arg) = ValueError
  \/ ~is_valid_bid(game, ParsedArg(arg))

C7_RejectionChangesNothing ==
  \A p \in Seats, arg \in EveryBidArg :
    IF MustReject(p, arg)
      THEN place_bid(game, p, arg) = [game |-> game, ret |-> FALSE]
      ELSE place_bid(game, p, arg).ret = TRUE

\* an open auction in which the current bidder is refused an illegal
\* Normal bid, a Double and a text that does not parse
C7_Witness ==
  /\ Open
  /\ NormalCalls # {}
  /\ ~place_bid(game, game.current_bidder, BidArg(Normal(1, "C"))).ret
  /\ ~place_bid(game, game.current_bidder, BidArg(DoubleBid)).ret
  /\ ~place_bid(game, game.current_bidder, StrArg(<<"8", "C">>)).ret

(***************************************************************************)
(* C8.  In an open auction a Normal bid is legal, and accepted from the    *)
(* current bidder, exactly if no Normal bid was made yet or it is higher   *)
(* than the last Normal bid of the history: a higher level, or the same    *)
(* level and a higher strain.                                              *)
(***************************************************************************)
C8_NormalBidLegality ==
  Open =>
    \A b \in NormalBids :
      LET legal == NormalCalls = {} \/ Higher(b, LastNormal.bid)
      IN  /\ is_valid_bid(game, b) <=> legal
          /\ place_bid(game, game.current_bidder, BidArg(b)).ret <=> legal

\* an open auction whose last Normal bid was followed by a Double and a
\* Pass
C8_Witness ==
  /\ Open
  /\ NormalCalls # {}
  /\ Len(History) >= Last(NormalCalls) + 2
  /\ History[Last(NormalCalls) + 1].bid.bid_type = "DOUBLE"
  /\ LastNormal.bid.level = 2

(***************************************************************************)
(* C9.  In an open auction Double is legal, and accepted from the current  *)
(* bidder, exactly if a Normal bid was made, the seat of the last Normal   *)
(* bid is of the other partnership than the current bidder, and the        *)
(* double status is none.                                                  *)
(***************************************************************************)
C9_DoubleLegality ==
  Open =>
    LET legal == /\ NormalCalls # {}
                 /\ LastNormal.player % 2 # game.current_bidder % 2
                 /\ game.double_status = "none"
    IN  /\ is_valid_bid(game, DoubleBid) <=> legal
        /\ place_bid(game, game.current_bidder, BidArg(DoubleBid)).ret <=> legal

\* an open auction with two Normal bids, by seats of both sides, where
\* the current bidder may double
C9_Witness ==
  /\ Open
  /\ is_valid_bid(game, DoubleBid)
  /\ \E i \in NormalCalls : History[i].player % 2 = game.current_bidder % 2

(***************************************************************************)
(* C10.  In an open auction Redouble is legal, and accepted from the       *)
(* current bidder, exactly if the double status is doubled and the seat    *)
(* of the last Normal bid is of the current bidder's partnership.          *)
(***************************************************************************)
C10_RedoubleLegality ==
  Open =>
    LET legal == /\ game.double_status = "doubled"
                 /\ NormalCalls # {}
                 /\ LastNormal.player % 2 = game.current_bidder % 2
    IN  /\ is_valid_bid(game, RedoubleBid) <=> legal
        /\ place_bid(game, game.current_bidder, BidArg(RedoubleBid)).ret <=> legal

\* an open auction where the current bidder may redouble
C10_Witness ==
  /\ Open
  /\ is_valid_bid(game, RedoubleBid)
  /\ Len(History) >= 3

(***************************************************************************)
(* C11.  In every state the bids get_valid_bids returns are exactly the    *)
(* bids, of Pass, Double, Redouble and the 35 Normal bids, that place_bid  *)
(* accepts from the current bidder, a resolved auction included.           *)
(***************************************************************************)
C11_ValidBidsAreAccepted ==
  \A b \in AllBids :
    InSeq(b, get_valid_bids(game))
      <=> place_bid(game, game.current_bidder, BidArg(b)).ret

(***************************************************************************)
(* C12.  The current bidder is seat 0 at an empty history and moves on by  *)
(* one seat (mod 4) with every accepted call and with nothing else: it is  *)
(* the history's length mod 4, and entry i (0-based) of the history was    *)
(* made by seat i mod 4.                                                   *)
(***************************************************************************)
C12_BidderRotates ==
  /\ game.current_bidder = Len(History) % 4
  /\ \A i \in 1..Len(History) : History[i].player = (i - 1) % 4

\* an auction that has come round to seat 0 again, with a card played
\* after it was resolved
C12_Witness ==
  /\ Len(History) >= 5
  /\ History[5].player = 0
  /\ Len(game.game_history) > 0

(***************************************************************************)
(* C13.  The double status is that of the most recent call that is not a   *)
(* Pass: none if there is no such call or it is a Normal bid, doubled if   *)
(* it is a Double, redoubled if it is a Redouble.                          *)
(***************************************************************************)
StatusOf(bid_type) ==
  IF bid_type = "DOUBLE" THEN "doubled"
  ELSE IF bid_type = "REDOUBLE" THEN "redoubled"
  ELSE "none"

C13_DoubleStatusFollowsHistory ==
  game.double_status =
    IF NonPassCalls = {} THEN "none"
    ELSE StatusOf(History[Last(NonPassCalls)].bid.bid_type)

\* a Normal bid over a doubled bid, then a Pass: the status is none again
C13_Witness ==
  /\ game.double_status = "none"
  /\ \E i \in NonPassCalls : History[i].bid.bid_type = "DOUBLE"
  /\ History[Len(History)].bid.bid_type = "PASS"

(***************************************************************************)
(* C14.  The contract of a resolved auction with a Normal bid is the text  *)
(* of the last Normal bid's level and strain followed by nothing, X or XX  *)
(* as the last call that is not a Pass is a Normal bid, a Double or a      *)
(* Redouble.                                                               *)
(***************************************************************************)
C14_ContractSuffix ==
  (~Open /\ NormalCalls # {}) =>
    LET closing == History[Last(NonPassCalls)].bid.bid_type
        suffix == IF closing = "DOUBLE" THEN <<"X">>
                  ELSE IF closing = "REDOUBLE" THEN <<"X", "X">>
                  ELSE <<>>
    IN  game.contract = <<DigitSeq[LastNormal.bid.level + 1]>>
                          \o DenomText(LastNormal.bid.denomination) \o suffix

\* a redoubled contract
C14_Witness ==
  /\ ~Open
  /\ NormalCalls # {}
  /\ History[Last(NonPassCalls)].bid.bid_type = "REDOUBLE"
  /\ game.contract[Len(game.contract)] = "X"

(***************************************************************************)
(* The play of a hand, read off the game.                                  *)
(***************************************************************************)
Playing == game.current_state = "playing"
Holds(p, c) == InSeq(c, game.players[p])
HoldsSuit(p, suit) ==
  \E i \in 1..Len(game.players[p]) : game.players[p][i].suit = suit
LedSuit == game.trick[1].card.suit

(***************************************************************************)
(* C15.  In the play phase the seat on turn, when the trick is not empty   *)
(* and the seat holds a card of the suit of the trick's first card, has    *)
(* its cards of that suit accepted and every other card it holds           *)
(* rejected; when it holds no card of that suit, or the trick is empty,    *)
(* every card it holds is accepted.                                        *)
(***************************************************************************)
C15_FollowSuit ==
  Playing =>
    LET p == game.current_player
    IN  \A c \in PlayCards :
          Holds(p, c) =>
            (play_card(game, p, c).ret <=>
               \/ Len(game.trick) = 0
               \/ ~HoldsSuit(p, LedSuit)
               \/ c.suit = LedSuit)

\* the seat on turn holds a card of the led suit and a card of another
\* suit, after a seat that was void in the led suit discarded
C15_Witness ==
  /\ Playing
  /\ Len(game.trick) >= 2
  /\ \E k \in 2..Len(game.trick) : game.trick[k].card.suit # LedSuit
  /\ HoldsSuit(game.current_player, LedSuit)
  /\ \E c \in PlayCards : Holds(game.current_player, c) /\ c.suit # LedSuit

(***************************************************************************)
(* C16.  The winner of a completed trick of four plays is the seat that    *)
(* played the highest card of the trump suit, if the strain of the         *)
(* contract is a suit and a card of it was played; otherwise it is the     *)
(* seat that played the highest card of the suit led.  A card of another   *)
(* suit never wins.                                                        *)
(***************************************************************************)
Strain == IF NormalCalls = {} THEN None ELSE LastNormal.bid.denomination

HighestOf(trick, suit) ==
  LET of == {k \in 1..Len(trick) : trick[k].card.suit = suit}
  IN  CHOOSE k \in of : \A j \in of : trick[j].card.value <= trick[k].card.value

WinningPlay(trick, strain) ==
  IF strain \in Suits /\ \E k \in 1..Len(trick) : trick[k].card.suit = strain
    THEN HighestOf(trick, strain)
    ELSE HighestOf(trick, trick[1].card.suit)

C16_TrickWinner ==
  Len(game.last_complete_trick) = 4 =>
    LET trick == game.last_complete_trick
        won == trick[WinningPlay(trick, Strain)]
    IN  /\ game.last_trick_winner = won.player
        /\ determine_trick_winner(trick, game.contract) = won.player
        /\ won.card.suit \in {Strain, trick[1].card.suit}

\* a trick won by a trump lower than a card of the suit led
C16_Witness ==
  /\ Len(game.last_complete_trick) = 4
  /\ Strain \in Suits
  /\ game.last_complete_trick[1].card.suit # Strain
  /\ \E k \in 2..4 :
       /\ game.last_complete_trick[k].card.suit = Strain
       /\ game.last_complete_trick[k].player = game.last_trick_winner
       /\ game.last_complete_trick[k].card.value
            < game.last_complete_trick[1].card.value

(***************************************************************************)
(* C17.  play_card returns False when the state is not playing, when it    *)
(* is not the seat's turn (the turn is the designated leader's at an       *)
(* empty trick, current_player's otherwise), when the seat does not hold   *)
(* the card, or when the card breaks the follow-suit rule; a rejected      *)
(* play_card leaves the whole game as it was.                              *)
(***************************************************************************)
\* an auction of four passes names no declarer and so no opening leader
LeaderKnown == Len(game.game_history) > 0 \/ game.declarer # NoSeat

OnTurn(p) ==
  IF Len(game.trick) = 0 THEN LeaderKnown => p = DesignatedLeader
  ELSE p = game.current_player

MustRejectPlay(p, c) ==
  \/ ~Playing
  \/ ~OnTurn(p)
  \/ ~Holds(p, c)
  \/ Len(game.trick) > 0 /\ HoldsSuit(p, LedSuit) /\ c.suit # LedSuit

C17_RejectedPlayChangesNothing ==
  \A p \in Seats, c \in PlayCards :
    LET r == play_card(game, p, c)
    IN  /\ MustRejectPlay(p, c) => ~r.ret
        /\ ~r.ret => r.game = game

(***************************************************************************)
(* C18.  In the play of a contract the plays of the current trick, and of *)
(* the last resolved trick, are in rotation from the trick's leader: play  *)
(* k (0-based) is by seat (leader + k) mod 4, so no seat plays twice in a  *)
(* trick and a resolved trick has one card of each seat.                   *)
(***************************************************************************)
InRotation(trick) ==
  \A k \in 1..Len(trick) : trick[k].player = (trick[1].player + (k - 1)) % 4

C18_OnePlayPerSeatInRotation ==
  NormalCalls # {} =>
    /\ InRotation(game.trick)
    /\ InRotation(game.last_complete_trick)
    /\ Len(game.last_complete_trick) \in {0, 4}

(***************************************************************************)
(* C19.  When the hand is complete (state game_over) the two partnership   *)
(* counts of the tally sum to the number of resolved tricks, one trick     *)
(* per seat's card dealt.                                                  *)
(***************************************************************************)
C19_TallySumsToTricks ==
  game.current_state = "game_over" =>
    /\ game.scores.NS + game.scores.EW = Len(game.game_history) \div 4
    /\ game.scores.NS + game.scores.EW = PlayRanks

(***************************************************************************)
(* C20.  The state is game_over exactly when, after the deal, all four     *)
(* hands are empty: it is entered by the play that resolves the last       *)
(* trick, never while a seat holds a card, and in it every play_card is    *)
(* rejected.                                                               *)
(***************************************************************************)
C20_HandCompleteIffHandsEmpty ==
  /\ game.current_state = "game_over" <=> hand_complete(game)
  /\ game.current_state = "game_over" =>
       /\ Len(game.game_history) = 4 * PlayRanks
       /\ Len(game.trick) = 0
       /\ Len(game.last_complete_trick) = 4
       /\ \A p \in Seats, c \in PlayCards : ~play_card(game, p, c).ret

\* a hand played to its end
C20_Witness ==
  /\ game.current_state = "game_over"
  /\ Len(game.game_history) = 4 * PlayRanks
  /\ game.scores # NoScores

(***************************************************************************)
(* C21.  After every deal, by deal_cards or by new_game and for every      *)
(* shuffle order, each of the four seats holds as many cards as the deck   *)
(* has ranks (13), no card is in two hands or twice in one, the hands      *)
(* together are the full deck, and the deck is empty.                      *)
(***************************************************************************)
HandSet(g, p) == {g.players[p][i] : i \in 1..Len(g.players[p])}

DealIsPartition(g) ==
  /\ \A p \in Seats : Len(g.players[p]) = PlayRanks
  /\ \A p \in Seats : Cardinality(HandSet(g, p)) = PlayRanks
  /\ \A p, q \in Seats : p # q => HandSet(g, p) \cap HandSet(g, q) = {}
  /\ UNION {HandSet(g, p) : p \in Seats} = PlayCards
  /\ Len(g.deck) = 0

Dealt(g) == \E p \in Seats : Len(g.players[p]) > 0

C21_DealIsPartition ==
  /\ Dealt(game) => DealIsPartition(game)
  /\ \A seed \in DealSeeds :
       /\ DealIsPartition(deal_cards(game, PlayRanks, seed))
       /\ DealIsPartition(new_game(game, PlayRanks, seed, seed))

\* a deal in which every seat holds cards of two suits
C21_Witness ==
  /\ Dealt(game)
  /\ Len(game.deck) = 0
  /\ \A p \in Seats : \E i, j \in 1..Len(game.players[p]) :
       game.players[p][i].suit # game.players[p][j].suit

(***************************************************************************)
(* C22.  A resolved auction is terminal and frozen: in every state after   *)
(* resolution every place_bid is rejected and changes nothing, and no      *)
(* play_card takes the state back to bidding or changes the bidding        *)
(* history, the contract, the declarer, the dummy or the double status.    *)
(***************************************************************************)
AuctionResult(g) ==
  <<g.bidding_history, g.contract, g.declarer, g.dummy, g.double_status>>

C22_ResolvedIsFrozen ==
  ~Open =>
    /\ \A p \in Seats, b \in AllBids :
         place_bid(game, p, BidArg(b)) = [game |-> game, ret |-> FALSE]
    /\ \A p \in Seats, c \in PlayCards :
         \A g \in {play_card(game, p, c).game} :
           /\ g.current_state # "bidding"
           /\ AuctionResult(g) = AuctionResult(game)

\* a contract hand in its second trick
C22_Witness ==
  /\ Playing
  /\ game.contract # <<>>
  /\ game.declarer # NoSeat
  /\ Len(game.game_history) > 4

(***************************************************************************)
(* C23.  For every bid b of Pass, Double, Redouble and the 35 Normal       *)
(* bids, Bid.from_string(str(b)) == b, str(b) showing a suit by its        *)
(* symbol and No-Trump as NT.                                              *)
(***************************************************************************)
C23_ParseOfFormat ==
  /\ \A b \in AllBids : Bid_eq(Bid_from_string(Bid_str(b)), b)
  /\ (caller.parsed # NoBid /\ caller.text = Bid_str(caller.a))
       => Bid_eq(caller.parsed, caller.a)

\* a suit bid formatted with its symbol and parsed back
C23_Witness ==
  /\ caller.a = Normal(7, "S")
  /\ caller.text = <<"7", "u2660">>
  /\ caller.parsed = caller.a

(***************************************************************************)
(* C24.  Among the 35 Normal bids < is the strict total order by level     *)
(* and then by strain rank (C < D < H < S < NT), > is its converse,        *)
(* b1 < b2 exactly if get_rank(b1) < get_rank(b2), and Pass is less than   *)
(* every Normal bid.                                                       *)
(***************************************************************************)
C24_NormalBidOrder ==
  (caller.a \in NormalBids /\ caller.b \in NormalBids) =>
    LET a == caller.a
        b == caller.b
    IN  /\ Bid_lt(a, b) <=> Higher(b, a)
        /\ Bid_gt(a, b) <=> Bid_lt(b, a)
        /\ Bid_lt(a, b) <=> Bid_get_rank(a) < Bid_get_rank(b)
        /\ ~Bid_lt(a, a)
        /\ a # b => (Bid_lt(a, b) \/ Bid_lt(b, a))
        /\ ~(Bid_lt(a, b) /\ Bid_lt(b, a))
        /\ \A c \in NormalBids : (Bid_lt(a, b) /\ Bid_lt(b, c)) => Bid_lt(a, c)
        /\ Bid_lt(PassBid, a)
        /\ caller.compared =>
             /\ caller.lt = Higher(b, a)
             /\ caller.gt = Higher(a, b)

\* a bid of a higher level and a lower strain compared with one of a
\* lower level and a higher strain
C24_Witness ==
  /\ caller.compared
  /\ caller.a = Normal(2, "C")
  /\ caller.b = Normal(1, "NT")
  /\ caller.gt

(***************************************************************************)
(* C25.  Bid.from_string takes the canonical forms in any case: for every  *)
(* bid, the lower-case, upper-case and mixed-case spellings of Pass,       *)
(* Double, Redouble and of level and strain letters parse to that bid.     *)
(***************************************************************************)
C25_ParseAnyCase ==
  (caller.parsed # NoBid /\ caller.text \in Spellings(caller.a))
    => Bid_eq(caller.parsed, caller.a)

C27_NextSeatFollows ==
  (Playing /\ NormalCalls # {} /\ Len(game.trick) \in 1..3) =>
    \A p \in Seats, c \in PlayCards :
      play_card(game, p, c).ret
        => p = (game.trick[Len(game.trick)].player + 1) % 4

(***************************************************************************)
(* C28.  After a deal and an auction resolved with a contract, the play    *)
(* is never stuck: before the hand is complete some seat has a card that   *)
(* play_card accepts.                                                      *)
(***************************************************************************)
C28_PlayNeverStuck ==
  (Playing /\ NormalCalls # {}) =>
    \E p \in Seats, c \in PlayCards : play_card(game, p, c).ret

(***************************************************************************)
(* C29.  The trump suit depends on the strain of the contract alone: for   *)
(* every level and suit the undoubled, the doubled (X) and the redoubled   *)
(* (XX) contract give that suit as trump, and a No-Trump contract,         *)
(* doubled or not, gives none.                                             *)
(***************************************************************************)
TrumpOf(strain) == IF strain \in Suits THEN strain ELSE None

C29_TrumpFromStrainOnly ==
  /\ \A l \in Levels, d \in Denoms, status \in {"none", "doubled", "redoubled"} :
       trump_suit(<<str_int(l)>> \o DenomText(d) \o contract_suffix(status))
         = TrumpOf(d)
  /\ (~Open /\ NormalCalls # {}) => trump_suit(game.contract) = TrumpOf(Strain)

\* a redoubled suit contract
C29_Witness ==
  /\ ~Open
  /\ game.double_status = "redoubled"
  /\ Len(game.contract) = 4
  /\ trump_suit(game.contract) = "H"

(***************************************************************************)
(* C30.  Every auction ends: the Normal bids of the history rise           *)
(* strictly, a Normal bid is followed by at most one Double and one        *)
(* Redouble before the next, an open auction ends in at most two passes    *)
(* (three when nothing else was called), and so the history never has      *)
(* more than 319 calls: every accepted call lowers the number of calls     *)
(* that can still follow.                                                  *)
(***************************************************************************)
\* three opening passes, nine calls for each of the 35 Normal bids (the
\* bid, two passes, a Double, two passes, a Redouble, two passes) and the
\* closing pass
LongestAuction == 3 + (9 * 35) + 1

RECURSIVE TrailingPasses(_)
TrailingPasses(h) ==
  IF Len(h) = 0 \/ h[Len(h)].bid.bid_type # "PASS" THEN 0
  ELSE 1 + TrailingPasses(SubSeq(h, 1, Len(h) - 1))

BidIndex(b) == ((b.level - 1) * 5) + DenomRank(b.denomination)

\* the most calls that can follow in an auction in the state of g
CallsLeft(g) ==
  IF g.current_state # "bidding" THEN 0
  ELSE IF g.last_bid = NoBid THEN LongestAuction - TrailingPasses(g.bidding_history)
  ELSE (9 * ((35 - BidIndex(g.last_bid)) + 1))
         - (IF g.double_status = "doubled" THEN 3
            ELSE IF g.double_status = "redoubled" THEN 6 ELSE 0)
         - TrailingPasses(g.bidding_history)

\* the calls of the given type after Normal bid i and before the next
After(i, bid_type) ==
  {j \in (i + 1)..Len(History) :
     /\ History[j].bid.bid_type = bid_type
     /\ \A k \in (i + 1)..j : History[k].bid.bid_type # "NORMAL"}

C30_AuctionEnds ==
  /\ \A i \in NormalCalls, j \in NormalCalls :
       i < j => Higher(History[j].bid, History[i].bid)
  /\ \A i \in NormalCalls :
       /\ Cardinality(After(i, "DOUBLE")) <= 1
       /\ Cardinality(After(i, "REDOUBLE")) <= 1
  /\ \A j \in NonPassCalls : History[j].bid.bid_type # "NORMAL" => NormalCalls # {}
  /\ Open => TrailingPasses(History) <= (IF NonPassCalls = {} THEN 3 ELSE 2)
  /\ CallsLeft(game) >= 0
  /\ Len(History) + CallsLeft(game) <= LongestAuction
  /\ Len(History) <= LongestAuction
  /\ Open =>
       /\ CallsLeft(game) >= 1
       /\ \A b \in AllBids :
            LET r == place_bid(game, game.current_bidder, BidArg(b))
            IN  r.ret => CallsLeft(r.game) < CallsLeft(game)

\* an open auction of a redoubled bid and two passes
C30_Witness ==
  /\ Open
  /\ game.double_status = "redoubled"
  /\ TrailingPasses(History) = 2

(***************************************************************************)
(* C31.  Cards are conserved during play: after a deal the cards of the    *)
(* four hands and the cards recorded in game_history are the whole deck,   *)
(* no card twice; an accepted play moves one card from the hand of the     *)
(* seat that played to the end of the history and touches no other hand;   *)
(* the new_game that follows a finished hand deals the whole deck again.   *)
(***************************************************************************)
Played(g) == {g.game_history[i].card : i \in 1..Len(g.game_history)}

Conserved(g) ==
  /\ Cardinality(Played(g)) = Len(g.game_history)
  /\ \A p \in Seats : Cardinality(HandSet(g, p)) = Len(g.players[p])
  /\ \A p \in Seats : HandSet(g, p) \cap Played(g) = {}
  /\ \A p, q \in Seats : p # q => HandSet(g, p) \cap HandSet(g, q) = {}
  /\ Played(g) \cup UNION {HandSet(g, p) : p \in Seats} = PlayCards

C32_NoDeclarerWhileOpen ==
  Open => /\ game.declarer = NoSeat
          /\ game.dummy = NoSeat

(***************************************************************************)
(* C33.  The cached last_bid is the most recent Normal bid of              *)
(* bidding_history, and None exactly when the history has no Normal bid;   *)
(* the seat the history scan finds is the seat of that same call.          *)
(***************************************************************************)
NormalsOf(g) ==
  {i \in 1..Len(g.bidding_history) : g.bidding_history[i].bid.bid_type = "NORMAL"}

LastBidCached(g) ==
  IF NormalsOf(g) = {}
    THEN /\ g.last_bid = NoBid
         /\ last_bidder(g) = NoSeat
    ELSE LET i == CHOOSE k \in NormalsOf(g) : \A j \in NormalsOf(g) : j <= k
         IN  /\ g.last_bid = g.bidding_history[i].bid
             /\ last_bidder(g) = g.bidding_history[i].player

C33_LastBidIsLastNormal ==
  /\ LastBidCached(game)
  /\ LastBidCached(start_bidding(game))
  /\ \A seed \in ShuffleSeeds : LastBidCached(new_game(game, NumRanks, seed, seed))
  /\ \A p \in Seats, b \in AllBids :
       LastBidCached(place_bid(game, p, BidArg(b)).game)

\* an open auction whose last Normal bid was doubled and redoubled since
C33_Witness ==
  /\ Open
  /\ game.last_bid = Normal(2, "H")
  /\ game.double_status = "redoubled"
  /\ Len(History) > Last(NormalCalls) + 2

(***************************************************************************)
(* C34.  game_history is an append-only log of the hand: an accepted play  *)
(* appends one entry (seat, card, trick index) and changes no earlier      *)
(* entry, a rejected play appends nothing, entry k (from 0) carries trick  *)
(* index k div 4, and entries 4t..4t+3 are the four plays of the t-th      *)
(* resolved trick in the order played.                                     *)
(***************************************************************************)
PlayOf(entry) == [player |-> entry.player, card |-> entry.card]

\* entries from..to of the history, as plays
PlaysOf(g, from, to) == [i \in 1..((to - from) + 1) |-> PlayOf(g.game_history[(from + i) - 1])]

HistoryTagged(g) ==
  LET n == Len(g.game_history)
  IN  /\ \A k \in 1..n : g.game_history[k].trick = (k - 1) \div 4
      /\ Len(g.trick) = n % 4
      /\ g.trick = PlaysOf(g, (n - (n % 4)) + 1, n)
      /\ n >= 4 => g.last_complete_trick = PlaysOf(g, (n - (n % 4)) - 3, n - (n % 4))

C34_HistoryAppendOnly ==
  /\ HistoryTagged(game)
  /\ \A p \in Seats, c \in PlayCards :
       \A r \in {play_card(game, p, c)} :
           IF r.ret
             THEN /\ r.game.game_history =
                       Append(game.game_history,
                              [player |-> p, card |-> c,
                               trick |-> Len(game.game_history) \div 4])
                  /\ HistoryTagged(r.game)
             ELSE r.game.game_history = game.game_history

\* the second trick has been resolved
C34_Witness ==
  /\ Len(game.game_history) = 8
  /\ game.game_history[8].trick = 1
  /\ game.last_complete_trick = PlaysOf(game, 5, 8)

(***************************************************************************)
(* C35.  Over all 38 bids < is a strict partial order (irreflexive,        *)
(* asymmetric, transitive), a > b holds exactly when b < a, Double and     *)
(* Redouble are neither below nor above any Normal bid, and between        *)
(* Double and Redouble only Double < Redouble holds.                       *)
(***************************************************************************)
Doubles == {DoubleBid, RedoubleBid}

C35_StrictPartialOrder ==
  LET a == caller.a
      b == caller.b
  IN  /\ ~Bid_lt(a, a)
      /\ ~Bid_gt(a, a)
      /\ ~(Bid_lt(a, b) /\ Bid_lt(b, a))
      /\ \A c \in AllBids : (Bid_lt(a, b) /\ Bid_lt(b, c)) => Bid_lt(a, c)
      /\ Bid_gt(a, b) <=> Bid_lt(b, a)
      /\ (a \in Doubles /\ b \in NormalBids) =>
           /\ ~Bid_lt(a, b) /\ ~Bid_lt(b, a)
           /\ ~Bid_gt(a, b) /\ ~Bid_gt(b, a)
      /\ (a \in Doubles /\ b \in Doubles) =>
           (Bid_lt(a, b) <=> (a = DoubleBid /\ b = RedoubleBid))
      /\ caller.compared =>
           /\ caller.lt = Bid_lt(a, b)
           /\ caller.gt = Bid_gt(a, b)
           /\ caller.gt => ~caller.lt

\* a Double compared with a Normal bid: neither below nor above it
C35_Witness ==
  /\ caller.compared
  /\ caller.a = DoubleBid
  /\ caller.b = Normal(7, "NT")
  /\ ~caller.lt
  /\ ~caller.gt

(***************************************************************************)
(* C36.  deal_card on an empty deck returns None and leaves the deck       *)
(* empty; on a deck that holds cards it removes one card and returns it,   *)
(* so the cards left and the cards returned since the last reset are       *)
(* together the full deck; shuffle keeps the cards held.                   *)
(***************************************************************************)
SetOf(cards) == {cards[i] : i \in 1..Len(cards)}

C36_DeckConserved ==
  LET d == Deck_deal_card(game.deck)
  IN  /\ Len(game.deck) + Len(caller.dealt) = Len(Deck_reset)
      /\ SetOf(game.deck) \cup SetOf(caller.dealt) = SetOf(Deck_reset)
      /\ SetOf(game.deck) \cap SetOf(caller.dealt) = {}
      /\ Len(game.deck) = 0 =>
           /\ d.card = NoCard
           /\ d.cards = <<>>
      /\ Len(game.deck) > 0 =>
           /\ d.card \in SetOf(game.deck)
           /\ Len(d.cards) = Len(game.deck) - 1
           /\ SetOf(d.cards) = SetOf(game.deck) \ {d.card}
      /\ \A seed \in DeckSeeds :
           /\ Len(Deck_shuffle(game.deck, seed)) = Len(game.deck)
           /\ SetOf(Deck_shuffle(game.deck, seed)) = SetOf(game.deck)

\* deal_card has answered None to a call on the emptied deck
C36_Witness ==
  /\ Len(game.deck) = 0
  /\ Len(caller.dealt) = Len(Deck_reset)
  /\ caller.card = NoCard

(***************************************************************************)
(* C37.  Bid.from_string fails for every text that is not a canonical      *)
(* form: a text it parses to a bid is, stripped, a spelling of some bid,   *)
(* so a canonical bid followed by extra characters (1HX, 2SS) is           *)
(* rejected, not parsed as a Normal bid.                                   *)
(***************************************************************************)
CanonicalTexts == UNION {Spellings(b) \cup {Bid_str(b)} : b \in AllBids}

C37_OnlyCanonicalTextParses ==
  (caller.parsed # NoBid /\ caller.parsed # ValueError)
    => str_strip(caller.text) \in CanonicalTexts

(***************************************************************************)
(* C38.  Every resolved trick has a winner: a seat that played a card of   *)
(* the suit led or of the trump suit to the trick.  After the resolution   *)
(* the trick is empty, last_complete_trick holds the four plays just       *)
(* resolved, and current_player and last_trick_winner are both that seat.  *)
(***************************************************************************)
\* seat w played to the trick a card of the suit led or of the trump suit
WonBy(trick, w) ==
  /\ w \in Seats
  /\ \E k \in 1..Len(trick) :
       /\ trick[k].player = w
       /\ trick[k].card.suit \in {trick[1].card.suit, TrumpOf(Strain)}

C38_ResolvedTrickHasWinner ==
  /\ (Len(game.game_history) >= 4 /\ Len(game.trick) = 0) =>
       /\ Len(game.last_complete_trick) = 4
       /\ WonBy(game.last_complete_trick, game.last_trick_winner)
       /\ game.current_player = game.last_trick_winner
  /\ Len(game.trick) = 3 =>
       \A p \in Seats, c \in PlayCards :
         \A r \in {play_card(game, p, c)} :
           LET played == Append(game.trick, [player |-> p, card |-> c])
           IN  r.ret =>
                 /\ r.game.trick = <<>>
                 /\ r.game.last_complete_trick = played
                 /\ WonBy(played, r.game.last_trick_winner)
                 /\ r.game.current_player = r.game.last_trick_winner

\* a trick resolved in which the last seat to play threw a card of
\* neither the suit led nor the trump suit
C38_Witness ==
  /\ Len(game.game_history) = 4
  /\ Len(game.trick) = 0
  /\ NormalCalls # {}
  /\ game.current_player = game.last_trick_winner
  /\ ~WonBy(game.last_complete_trick, game.last_complete_trick[4].player)
=============================================================================
